---- MODULE Spec2Model ----
(***************************************************************************)
(* Model of fetch_candles.py: one run of main(), i.e. the date planner,    *)
(* the per-symbol / per-date loop of fetch_multiple_stocks, the 08:30      *)
(* Eastern selector get_830_candle_for_date and the CSV report of main.    *)
(*                                                                         *)
(* Time is counted in minutes.  Day 0 is a Monday, 00:00 UTC; the US       *)
(* daylight-saving start falls on the Sunday of the second week (day 13)   *)
(* at 07:00 UTC, so the model calendar holds bars on both sides of the     *)
(* offset change.                                                          *)
(***************************************************************************)
EXTENDS Integers, Sequences, FiniteSets

VARIABLES
    apiKey,          \* FMP_API_KEY is set                       (main, l.135)
    mode,            \* FETCH_MODE                               (main, l.140)
    symbols,         \* STOCK_LIST                               (main, l.146-153)
    now,             \* the instant of the run, UTC minutes
    pc,              \* position of the run
    dates_to_fetch,  \* fetch_multiple_stocks, l.80-96
    i,               \* index of the symbol being processed (1-based)
    j,               \* index of the target date being processed (1-based)
    results,         \* fetch_multiple_stocks.results
    inflight,        \* number of HTTP requests in flight
    lastCall,        \* last get_830_candle_for_date call: bars, date, result
    log,             \* history: requests, returns and pauses, in order
    csv,             \* the file written by main, <<>> when none
    exitStatus       \* process exit status, -1 while running

vars == <<apiKey, mode, symbols, now, pc, dates_to_fetch, i, j, results,
          inflight, lastCall, log, csv, exitStatus>>

(***************************************************************************)
(* Bounds and input sets                                                   *)
(***************************************************************************)
MaxSymbols == 2

Symbols == {"AAPL", "MSFT"}

Modes == {"today", "yesterday", "last_5_days", "weekly"}

ProcZones == {"UTC", "US/Eastern"}

RECURSIVE SeqsUpTo(_, _)
SeqsUpTo(S, n) ==
    IF n = 0 THEN {<<>>}
    ELSE LET shorter == SeqsUpTo(S, n - 1)
         IN shorter \cup {Append(s, x) : s \in {t \in shorter : Len(t) = n - 1}, x \in S}

SymbolLists == SeqsUpTo(Symbols, MaxSymbols)

At(day, hh, mm) == (day * 24 + hh) * 60 + mm

\* 14:00 UTC (10:00 EDT) on Mon..Sun, and 01:00 UTC, which is 21:00 EDT of the
\* day before
Nows == {At(d, 14, 0) : d \in 14..20} \cup {At(14, 1, 0), At(17, 1, 0)}

(***************************************************************************)
(* Civil time                                                              *)
(***************************************************************************)
DstStartUtc == At(13, 7, 0)

DateOf(t) == t \div (24 * 60)

HourOf(t) == (t % (24 * 60)) \div 60

MinuteOf(t) == t % 60

\* date.weekday(): Monday = 0 ... Sunday = 6
Weekday(d) == d % 7

\* a conversion at the standard-time offset all year
ToEasternFixedOffset(ts) == ts - 5 * 60

\* .dt.tz_localize('UTC').dt.tz_convert(eastern)
ToEastern(ts) == IF ts >= DstStartUtc THEN ts - 4 * 60 ELSE ts - 5 * 60

\* strftime('%Z')
ZoneAbbr(ts) == IF ts >= DstStartUtc THEN "EDT" ELSE "EST"

\* naive datetime.now() of a process running in the given zone
LocalTime(ts, zone) == IF zone = "UTC" THEN ts ELSE ToEastern(ts)

(***************************************************************************)
(* The provider                                                            *)
(***************************************************************************)
None == <<>>

Some(x) == <<x>>

Bar(ts, p) ==
    [date |-> ts, open |-> p, high |-> p + 2, low |-> p - 1, close |-> p + 1,
     volume |-> 100 * p]

BarOpen    == Bar(At(16, 12, 30), 10)   \* Wed 08:30 EDT
BarLate    == Bar(At(16, 13, 30), 20)   \* Wed 09:30 EDT (08:30 at a fixed -5h)
BarEarly   == Bar(At(16, 12, 0), 30)    \* Wed 08:00 EDT
BarNext    == Bar(At(18, 12, 30), 40)   \* Fri 08:30 EDT
BarTie     == Bar(At(16, 12, 30), 50)   \* Wed 08:30 EDT, a second bar
BarWinter  == Bar(At(11, 13, 30), 60)   \* Fri before the change, 08:30 EST
BarWinter7 == Bar(At(11, 12, 30), 70)   \* Fri before the change, 07:30 EST
BarNight   == Bar(At(17, 3, 30), 80)    \* Thu 03:30 UTC = Wed 23:30 EDT

\* JSON bodies of a 200 response, most recent bar first
Bodies ==
    { <<>>,
      <<BarNext, BarNight, BarLate, BarTie, BarEarly>>,
      <<BarLate, BarTie, BarOpen>>,
      <<BarLate, BarEarly, BarWinter7>>,
      <<BarNext, BarWinter, BarWinter7>> }

\* what requests.get / raise_for_status / json can produce
Responses ==
    {[kind |-> k, data |-> <<>>] : k \in {"network_error", "http_error"}}
        \cup {[kind |-> "ok", data |-> d] : d \in Bodies}

(***************************************************************************)
(* FMPCandleFetcher.fetch_intraday_candles                                 *)
(* The result is [exc, value]: exc is TRUE when an exception leaves the    *)
(* function, value is None or Some(bars).                                  *)
(***************************************************************************)
\* without the except clause
FetchIntradayUncaught(resp) ==
    IF resp.kind # "ok" THEN [exc |-> TRUE, value |-> None]
    ELSE IF resp.data # <<>> THEN [exc |-> FALSE, value |-> Some(resp.data)]
    ELSE [exc |-> FALSE, value |-> None]

fetch_intraday_candles(resp) ==
    IF resp.kind # "ok"
    THEN [exc |-> FALSE, value |-> None]                \* except Exception
    ELSE IF resp.data # <<>>
         THEN [exc |-> FALSE, value |-> Some(resp.data)]
         ELSE [exc |-> FALSE, value |-> None]

(***************************************************************************)
(* FMPCandleFetcher.get_830_candle_for_date, after the fetch               *)
(***************************************************************************)
RECURSIVE WithEastern(_)
WithEastern(df) ==
    IF df = <<>> THEN <<>>
    ELSE <<[bar |-> Head(df), date_et |-> ToEastern(Head(df).date)]>>
             \o WithEastern(Tail(df))

\* no filter on the target date
FilterAnyDate(rows, target_date) == rows

RECURSIVE FilterDate(_, _)
FilterDate(rows, target_date) ==
    IF rows = <<>> THEN <<>>
    ELSE IF DateOf(Head(rows).date_et) = target_date
         THEN <<Head(rows)>> \o FilterDate(Tail(rows), target_date)
         ELSE FilterDate(Tail(rows), target_date)

Is830(candle_time) == HourOf(candle_time) = 8 /\ MinuteOf(candle_time) = 30

CandleDict(symbol, row) ==
    [symbol  |-> symbol,
     date    |-> row.bar.date,
     date_et |-> [t |-> row.date_et, zone |-> ZoneAbbr(row.bar.date)],
     open    |-> row.bar.open,
     high    |-> row.bar.high,
     low     |-> row.bar.low,
     close   |-> row.bar.close,
     volume  |-> row.bar.volume]

RECURSIVE FirstMatch(_, _)
FirstMatch(symbol, df_target) ==
    IF df_target = <<>> THEN None
    ELSE IF Is830(Head(df_target).date_et)
         THEN Some(CandleDict(symbol, Head(df_target)))
         ELSE FirstMatch(symbol, Tail(df_target))

\* df is None or Some(bars)
get_830_candle_for_date(symbol, df, target_date) ==
    IF df = None \/ df[1] = <<>> THEN None
    ELSE FirstMatch(symbol, FilterDate(WithEastern(df[1]), target_date))

(***************************************************************************)
(* The date plan of fetch_multiple_stocks                                  *)
(***************************************************************************)
WantDays == 5

MaxDaysBack == 10

\* weekday() < 6
IsWeekdayOrSaturday(check_date) == Weekday(check_date) < 6

IsWeekday(check_date) == Weekday(check_date) < 5

RECURSIVE Last5Walk(_, _, _, _)
Last5Walk(current_date, dates, days_found, days_back) ==
    IF days_found < WantDays /\ days_back < MaxDaysBack
    THEN LET check_date == current_date - days_back
         IN IF IsWeekday(check_date)
            THEN Last5Walk(current_date, Append(dates, check_date),
                           days_found + 1, days_back + 1)
            ELSE Last5Walk(current_date, dates, days_found, days_back + 1)
    ELSE dates

PlanDates(m, t) ==
    IF m = "today" THEN <<DateOf(ToEastern(t))>>
    ELSE IF m = "yesterday" THEN <<DateOf(ToEastern(t) - 24 * 60)>>
    ELSE IF m = "last_5_days" THEN Last5Walk(DateOf(ToEastern(t)), <<>>, 0, 0)
    ELSE <<DateOf(ToEastern(t))>>

(***************************************************************************)
(* The report of main                                                      *)
(***************************************************************************)
Header == <<"symbol", "date", "date_et", "open", "high", "low", "close", "volume">>

CsvRow(r) == <<r.symbol, r.date, r.date_et, r.open, r.high, r.low, r.close, r.volume>>

RECURSIVE CsvRows(_)
CsvRows(records) ==
    IF records = <<>> THEN <<>>
    ELSE <<CsvRow(Head(records))>> \o CsvRows(Tail(records))

\* local is the naive datetime.now() of the process
FileName(m, local) ==
    IF m = "today"
    THEN [pattern |-> "candles_830am_{date}.csv",
          date |-> DateOf(local), time |-> -1]
    ELSE IF m = "yesterday"
    THEN [pattern |-> "candles_830am_{date}_backfill.csv",
          date |-> DateOf(local - 24 * 60), time |-> -1]
    ELSE [pattern |-> "candles_830am_last5days_{date}_{time}.csv",
          date |-> DateOf(local), time |-> local % (24 * 60)]

\* no emptiness check
DataFrameNeverEmpty(records) == FALSE

\* df.empty of pd.DataFrame(results) / pd.DataFrame()
DataFrameEmpty(records) == records = <<>>

\* if candle_data: results.append(candle_data)
Accumulate(rs, candle_data) ==
    IF candle_data # None THEN Append(rs, candle_data[1]) ELSE rs

(***************************************************************************)
(* The run                                                                 *)
(***************************************************************************)
NoCall == [called |-> FALSE, symbol |-> "", df |-> None, target_date |-> 0, ret |-> None]

Event(ev, si, di, rec) == [ev |-> ev, i |-> si, j |-> di, rec |-> rec]

Init ==
    /\ apiKey \in BOOLEAN
    /\ mode \in Modes
    /\ symbols \in SymbolLists
    /\ now \in Nows
    /\ pc = "main"
    /\ dates_to_fetch = <<>>
    /\ i = 0
    /\ j = 0
    /\ results = <<>>
    /\ inflight = 0
    /\ lastCall = NoCall
    /\ log = <<>>
    /\ csv = None
    /\ exitStatus = -1

\* main, l.135-137: raise ValueError
MainMissingKey ==
    /\ pc = "main"
    /\ ~apiKey
    /\ pc' = "aborted"
    /\ exitStatus' = 1
    /\ UNCHANGED <<apiKey, mode, symbols, now, dates_to_fetch, i, j, results,
                   inflight, lastCall, log, csv>>

\* main up to the call of fetch_multiple_stocks, and its l.76-96
MainStart ==
    /\ pc = "main"
    /\ apiKey
    /\ dates_to_fetch' = PlanDates(mode, now)
    /\ i' = 1
    /\ j' = 1
    /\ pc' = "loop"
    /\ UNCHANGED <<apiKey, mode, symbols, now, results, inflight, lastCall, log,
                   csv, exitStatus>>

\* l.103 -> l.38 -> l.20: the request of one (symbol, date) pair leaves
SendRequest ==
    /\ pc = "loop"
    /\ i <= Len(symbols)
    /\ j <= Len(dates_to_fetch)
    /\ inflight' = inflight + 1
    /\ log' = Append(log, Event("request", i, j, None))
    /\ pc' = "await"
    /\ UNCHANGED <<apiKey, mode, symbols, now, dates_to_fetch, i, j, results,
                   lastCall, csv, exitStatus>>

\* l.20-34, l.40-66, l.104-105: the response arrives, the candle is selected
\* and accumulated
ReceiveAndSelect ==
    /\ pc = "await"
    /\ \E resp \in Responses :
         LET fetched == fetch_intraday_candles(resp)
             candle_data == get_830_candle_for_date(symbols[i], fetched.value,
                                                    dates_to_fetch[j])
         IN IF fetched.exc
            THEN /\ pc' = "crashed"
                 /\ exitStatus' = 1
                 /\ inflight' = inflight - 1
                 /\ UNCHANGED <<j, results, lastCall, log>>
            ELSE /\ pc' = "loop"
                 /\ inflight' = inflight - 1
                 /\ results' = Accumulate(results, candle_data)
                 /\ lastCall' = [called |-> TRUE, symbol |-> symbols[i],
                                 df |-> fetched.value,
                                 target_date |-> dates_to_fetch[j],
                                 ret |-> candle_data]
                 /\ log' = Append(log, Event("return", i, j, candle_data))
                 /\ j' = j + 1
                 /\ UNCHANGED exitStatus
    /\ UNCHANGED <<apiKey, mode, symbols, now, dates_to_fetch, i, csv>>

\* a pause that is skipped when the symbol produced no candle
SleepOnlyAfterData ==
    /\ pc = "loop"
    /\ i <= Len(symbols)
    /\ j > Len(dates_to_fetch)
    /\ log' = IF \E n \in 1..Len(log) :
                    log[n].ev = "return" /\ log[n].i = i /\ log[n].rec # None
              THEN Append(log, Event("sleep", i, 0, None))
              ELSE log
    /\ i' = i + 1
    /\ j' = 1
    /\ UNCHANGED <<apiKey, mode, symbols, now, pc, dates_to_fetch, results,
                   inflight, lastCall, csv, exitStatus>>

\* l.108: time.sleep(0.5), then the next symbol
Sleep ==
    /\ pc = "loop"
    /\ i <= Len(symbols)
    /\ j > Len(dates_to_fetch)
    /\ log' = Append(log, Event("sleep", i, 0, None))
    /\ i' = i + 1
    /\ j' = 1
    /\ UNCHANGED <<apiKey, mode, symbols, now, pc, dates_to_fetch, results,
                   inflight, lastCall, csv, exitStatus>>

\* l.110-113 and main l.168-188; the process clock is read in the process zone
Report ==
    /\ pc = "loop"
    /\ i > Len(symbols)
    /\ \E zone \in ProcZones :
         IF ~DataFrameEmpty(results)
         THEN /\ csv' = Some([name   |-> FileName(mode, LocalTime(now, zone)),
                              header |-> Header,
                              rows   |-> CsvRows(results)])
              /\ exitStatus' = 0
         ELSE /\ csv' = None
              /\ exitStatus' = 1
    /\ pc' = "done"
    /\ UNCHANGED <<apiKey, mode, symbols, now, dates_to_fetch, i, j, results,
                   inflight, lastCall, log>>

Next ==
    \/ MainMissingKey
    \/ MainStart
    \/ SendRequest
    \/ ReceiveAndSelect
    \/ Sleep
    \/ Report

Spec == Init /\ [][Next]_vars

(***************************************************************************)
(* Properties                                                              *)
(***************************************************************************)
LogIdx(ev) == {n \in 1..Len(log) : log[n].ev = ev}

LogIdxOf(ev, k) == {n \in LogIdx(ev) : log[n].i = k}

Returns == SelectSeq(log, LAMBDA e : e.ev = "return")

RECURSIVE Flatten(_)
Flatten(evs) ==
    IF evs = <<>> THEN <<>> ELSE Head(evs).rec \o Flatten(Tail(evs))

SetMin(S) == CHOOSE x \in S : \A y \in S : x <= y

\* the UTC instant at which the Eastern wall clock shows 08:30 on civil day d:
\* 12:30 UTC under daylight time, 13:30 UTC under standard time
Utc830(d) == IF At(d, 12, 30) >= DstStartUtc THEN At(d, 12, 30) ELSE At(d, 13, 30)

Shows830(r) ==
    /\ r.date = Utc830(DateOf(r.date))
    /\ r.date_et.t % (24 * 60) = 8 * 60 + 30

KnownModes == {"today", "yesterday", "last_5_days"}

Started == pc \notin {"main", "aborted"}

\* C1: every record the selector returns, and so every record accumulated in
\* results at any point of a run, is built from a bar whose US/Eastern time of
\* day is 08:30 (12:30 UTC under EDT, 13:30 UTC under EST).
C1_Only830Selected ==
    /\ \A k \in 1..Len(results) : Shows830(results[k])
    /\ lastCall.ret # None => Shows830(lastCall.ret[1])

\* C1 witness: results hold a record selected under EST and one under EDT.
C1_Witness ==
    \E a, b \in 1..Len(results) :
        results[a].date_et.zone = "EST" /\ results[b].date_et.zone = "EDT"

\* C2: bars are fetched once per symbol: no symbol has more than one request
\* in a run, and a finished run issued exactly one per symbol.
C2_OneFetchPerSymbol ==
    \A k \in 1..Len(symbols) :
        /\ Cardinality(LogIdxOf("request", k)) <= 1
        /\ pc = "done" => Cardinality(LogIdxOf("request", k)) = 1

\* C3: the run never aborts, the n-th attempt is the n-th (symbol, date) pair
\* in symbol order then planned-date order, a finished run attempted every
\* pair, and results is exactly the records of the attempts that succeeded, in
\* that order, each carrying its pair's symbol and date.
C3_AllPairsAttempted ==
    LET D == Len(dates_to_fetch)
    IN /\ pc # "crashed"
       /\ \A n \in 1..Len(Returns) :
            /\ Returns[n].i = ((n - 1) \div D) + 1
            /\ Returns[n].j = ((n - 1) % D) + 1
            /\ Returns[n].rec # None =>
                 /\ Returns[n].rec[1].symbol = symbols[Returns[n].i]
                 /\ DateOf(Returns[n].rec[1].date) = dates_to_fetch[Returns[n].j]
       /\ pc = "done" => Len(Returns) = Len(symbols) * D
       /\ results = Flatten(Returns)

\* C3 witness: a finished run of two symbols in which a failed pair lies
\* between two successful ones and the first symbol produced nothing at all
\* for one of its dates.
C3_Witness ==
    /\ pc = "done"
    /\ Len(symbols) = 2
    /\ \E a, b, c \in 1..Len(Returns) :
         /\ a < b /\ b < c
         /\ Returns[a].rec # None /\ Returns[b].rec = None /\ Returns[c].rec # None
         /\ Returns[a].i = 1 /\ Returns[c].i = 2

\* C4: with the API key present, a finished run has a non-zero status and no
\* CSV exactly when no record was collected; with N > 0 records it wrote one
\* CSV of the header and the N records in accumulation order and ended with
\* status 0.  No file exists before the run ends.
C4_ExitStatus ==
    /\ (apiKey /\ pc # "done") => csv = None
    /\ (apiKey /\ pc = "done") =>
         /\ exitStatus \in {0, 1}
         /\ (exitStatus # 0 /\ csv = None) <=> (Len(results) = 0)
         /\ Len(results) > 0 =>
              /\ exitStatus = 0
              /\ csv # None
              /\ csv[1].header = <<"symbol", "date", "date_et", "open", "high",
                                   "low", "close", "volume">>
              /\ Len(csv[1].rows) = Len(results)
              /\ \A k \in 1..Len(results) :
                   csv[1].rows[k] = <<results[k].symbol, results[k].date,
                                      results[k].date_et, results[k].open,
                                      results[k].high, results[k].low,
                                      results[k].close, results[k].volume>>

\* C4 witness: a run that ended with status 0 and two rows although some of
\* its pairs failed.
C4_Witness ==
    /\ pc = "done"
    /\ exitStatus = 0
    /\ Len(results) = 2
    /\ \E n \in 1..Len(Returns) : Returns[n].rec = None

\* C5: in last_5_days mode the plan is the 5 most recent Monday-Friday dates at
\* or before the current Eastern date, strictly descending, without Saturday
\* or Sunday, found within the 10 days examined.
C5_Last5Weekdays ==
    (mode = "last_5_days" /\ Started) =>
        LET today == DateOf(ToEastern(now))
            d == dates_to_fetch
        IN /\ Len(d) = 5
           /\ \A k \in 1..Len(d) : d[k] % 7 \in 0..4
           /\ \A k \in 1..(Len(d) - 1) : d[k] > d[k + 1]
           /\ d[1] <= today
           /\ today - d[Len(d)] < 10
           /\ \A x \in d[Len(d)]..today :
                x % 7 \in 0..4 => \E k \in 1..Len(d) : d[k] = x

\* C5 witness: a plan made on a Sunday, the longest walk back.
C5_Witness ==
    /\ mode = "last_5_days"
    /\ Started
    /\ DateOf(ToEastern(now)) % 7 = 6
    /\ Len(dates_to_fetch) = 5

\* C6: a run with an unrecognized mode plans the date of a today run and, when
\* it writes a file, gives it the name a today run would give it.
C6_UnknownModeAsToday ==
    (pc = "done" /\ mode \notin KnownModes) =>
        /\ dates_to_fetch = PlanDates("today", now)
        /\ csv # None =>
             \E zone \in ProcZones :
                 csv[1].name = FileName("today", LocalTime(now, zone))

\* C7: the pause happens once per symbol, after every planned date of the
\* symbol was processed and before any request of a later symbol, whatever the
\* outcome of the symbol's requests.
C7_SleepOncePerSymbol ==
    \A k \in 1..Len(symbols) :
        /\ Cardinality(LogIdxOf("sleep", k)) <= 1
        /\ \A s \in LogIdxOf("sleep", k) :
             /\ Cardinality({n \in LogIdxOf("return", k) : n < s})
                    = Len(dates_to_fetch)
             /\ \A n \in LogIdxOf("request", k) : n < s
        /\ \A n \in LogIdx("request") :
             log[n].i > k => \E s \in LogIdxOf("sleep", k) : s < n
        /\ pc = "done" => Cardinality(LogIdxOf("sleep", k)) = 1

\* C7 witness: a finished run with a pause after a symbol that produced no
\* candle and a pause after a symbol that produced one.
C7_Witness ==
    /\ pc = "done"
    /\ \E k1, k2 \in 1..Len(symbols) :
         /\ LogIdxOf("sleep", k1) # {} /\ LogIdxOf("sleep", k2) # {}
         /\ \A n \in LogIdxOf("return", k1) : log[n].rec = None
         /\ \E n \in LogIdxOf("return", k2) : log[n].rec # None

\* C8: the selector returns None without bars; with bars it returns the first
\* bar, in the provider's order, that is at 08:30 Eastern on the target date,
\* with its timestamp and OHLCV fields unchanged, and None when no bar is.
C8_FirstBarOnDate ==
    lastCall.called =>
        IF lastCall.df = None THEN lastCall.ret = None
        ELSE LET bars == lastCall.df[1]
                 M == {k \in 1..Len(bars) : bars[k].date = Utc830(lastCall.target_date)}
             IN IF M = {} THEN lastCall.ret = None
                ELSE /\ lastCall.ret # None
                     /\ LET b == bars[SetMin(M)]
                            r == lastCall.ret[1]
                        IN /\ r.symbol = lastCall.symbol
                           /\ r.date = b.date
                           /\ r.open = b.open
                           /\ r.high = b.high
                           /\ r.low = b.low
                           /\ r.close = b.close
                           /\ r.volume = b.volume

\* C8 witness: two bars at 08:30 Eastern on the target date, behind a bar of
\* another time, and the first of the two returned.
C8_Witness ==
    /\ lastCall.called
    /\ lastCall.df # None
    /\ Cardinality({k \in 1..Len(lastCall.df[1]) :
                       lastCall.df[1][k].date = Utc830(lastCall.target_date)}) = 2
    /\ lastCall.ret # None
    /\ lastCall.ret[1].open = BarTie.open

\* C9: in today and yesterday modes the date in the file name is the single
\* planned target date.
C9_FileDateIsTargetDate ==
    (pc = "done" /\ csv # None /\ mode \in {"today", "yesterday"}) =>
        csv[1].name.date = dates_to_fetch[1]

\* C10: at most one request is in flight, and between any two requests of a
\* run there is a pause.
C10_PauseBetweenRequests ==
    /\ inflight <= 1
    /\ \A n, m \in LogIdx("request") :
         n < m => \E s \in LogIdx("sleep") : n < s /\ s < m

====
